---- MODULE Spec2Model ----
(***************************************************************************)
(* Model of the OAuth2 delegation service Zetkolink/auth: the App          *)
(* Directory (models/apps), the Exchange Ledger (models/exchanges) and the *)
(* Token Store (models/tokens), each a set of parameterised SQL statements *)
(* over one PostgreSQL database, called from concurrent HTTP requests.     *)
(*                                                                         *)
(* Every SQL statement is one atomic step.  A request handler that issues  *)
(* several statements or a provider round trip is a sequence of steps, so  *)
(* that concurrent requests interleave between them.                       *)
(***************************************************************************)
EXTENDS Integers, FiniteSets, Sequences, TLC

----------------------------------------------------------------------------
(* Program constants                                                       *)

StatusEnable == "enable"
StatusDisable == "disable"

Google == "google"
Yandex == "yandex"
Mail == "mail"
VK == "vk"

\* The services the switch of apps.Model.GetConf has an endpoint for.
Registry == {Yandex, Google, Mail, VK}

\* apps.scopes: the static scope list per service (absent key: nil slice).
scopes(service) ==
    IF service = Yandex THEN <<"mail:imap_ro">>
    ELSE IF service = Google
         THEN <<"https://www.googleapis.com/github.com/Zetkolink/auth/gmail.addons.current.message.readonly">>
         ELSE <<>>

\* Error values returned by the model layer.
NoErr == "nil"
ErrNoRows == "sql: no rows in result set"
ErrExists == "app exists"
ErrStatus == "app status unavailable"
ErrService == "app service unavailable"
AppsErrNotFound == "app not found"
TokensErrNotFound == "token not found"
\* pq unique_violation (SQLSTATE 23505), as exchanges.Model.Create returns it
ErrUnique == "pq: duplicate key value violates unique constraint"
\* any other failure of a statement (connection lost, context cancelled)
ErrStorage == "storage failure"
\* a failure of the provider round trip (oauth2.RetrieveError and the like)
ErrProvider == "oauth2: cannot fetch token"
\* the error of appRequest.Bind on a body without an App
ErrBind == "missing required App field"

\* net/http status codes the handlers render
StatusOK == 200
StatusCreated == 201
StatusBadRequest == 400
StatusNotFound == 404
StatusConflict == 409
StatusInternalServerError == 500

----------------------------------------------------------------------------
(* Bounds and input sets                                                   *)

\* The provider issues at most MaxClock token sets in a behaviour.
MaxClock == 3

Calls == {1, 2}
AppIDs == {"app1", "app2"}
\* two services of the registry and one that is not in it
Services == {Yandex, Google, "github"}
Users == {42, 7}
\* helpers.RandomStr draws from 62^32 strings; the model keeps two of them
ExchangeIDs == {"st1", "st2"}
Codes == {"code1"}
Passwords == {"secret"}
StatusInputs == {StatusEnable, StatusDisable, "paused"}
TokenTypes == {"bearer", "mac"}

----------------------------------------------------------------------------
(* State                                                                   *)

VARIABLES
    apps,       \* table auth.apps: id -> row
    exchanges,  \* table auth.exchanges: id -> row
    tokens,     \* table auth.tokens: <<user_id, service>> -> row
    clock,      \* logical time: ticks when the provider issues a token set
    pc,         \* per request: the next statement of its handler
    op,         \* per request: the operation it runs
    args,       \* per request: the arguments of the operation
    local,      \* per request: the handler's local variables
    ret,        \* per request: the returned (value, error)
    srv,        \* the auth value: wg (WaitGroup counter), httpServer (its state)
    gpc         \* per goroutine of the process: the next statement it runs

vars == <<apps, exchanges, tokens, clock, pc, op, args, local, ret, srv, gpc>>

\* The goroutine of main, and the one runHTTPServer starts.
Goroutines == {"main", "serve"}

\* The process after newAuth: the server is built and not started, the
\* WaitGroup is at its zero value, Run has not been called.
Constructed ==
    /\ srv = [wg |-> 0, httpServer |-> "new"]
    /\ gpc = [main |-> "newAuth", serve |-> ""]

\* The process while it serves requests: Run has returned, the goroutine of
\* runHTTPServer is inside ListenAndServe and the listener accepts.
Serving ==
    /\ srv = [wg |-> 1, httpServer |-> "listening"]
    /\ gpc = [main |-> "running", serve |-> "ListenAndServe"]

NoArgs ==
    [id |-> "", service |-> "", userID |-> 0, status |-> "", password |-> "",
     code |-> "", exchangeID |-> "", route |-> "", body |-> ""]

NoExchange == [ID |-> "", Service |-> "", UserID |-> 0]
NoConf == [ClientID |-> "", ClientSecret |-> "", Scopes |-> <<>>, Endpoint |-> ""]
\* oauth2.Token zero value (Expiry as a logical instant, 0 the zero time)
NoOAuthToken == [TokenType |-> "", AccessToken |-> 0, RefreshToken |-> 0, Expiry |-> 0]
\* tokens.Token zero value
NoToken ==
    [TokenType |-> "", AccessToken |-> 0, RefreshToken |-> 0, Expiry |-> 0,
     UserID |-> 0, Service |-> "", CreatedAt |-> 0]
\* apps.App zero value
NoApp == [ID |-> "", Service |-> "", Password |-> "", Status |-> ""]

\* exchange, conf, tk, token, newToken: the handler's variables of those names.
\* grants, refreshes, confs count the provider round trips and the GetConf
\* calls the request has made so far; late records that the request is a
\* complete delegation that follows, on the same handler, a successful complete
\* delegation with the same exchangeID; existed that it arrived when the App id
\* it names had a row; retry that the request is a complete delegation that
\* follows, on the same handler, a complete delegation with the same exchangeID
\* that failed at the grant exchange.
NoLocal ==
    [exchange |-> NoExchange, conf |-> NoConf, tk |-> NoOAuthToken,
     token |-> NoToken, newToken |-> NoOAuthToken,
     grants |-> 0, refreshes |-> 0, confs |-> 0, late |-> FALSE, existed |-> FALSE,
     retry |-> FALSE]

\* val, err: what the model method returned; status: the status code the
\* controller of the operation rendered from them (0: none rendered)
NoRet == [val |-> 0, err |-> NoErr, status |-> 0]

\* a table without rows
EmptyTable == [k \in {} |-> k]

Init ==
    /\ apps = EmptyTable
    /\ exchanges = EmptyTable
    /\ tokens = EmptyTable
    /\ clock = 0
    /\ pc = [c \in Calls |-> "idle"]
    /\ op = [c \in Calls |-> ""]
    /\ args = [c \in Calls |-> NoArgs]
    /\ local = [c \in Calls |-> NoLocal]
    /\ ret = [c \in Calls |-> NoRet]
    /\ Serving

----------------------------------------------------------------------------
(* Storage and request plumbing                                            *)

\* INSERT of one row under a key that has none, or UPDATE of the row of a key
Put(table, key, row) == [k \in DOMAIN table \cup {key} |-> IF k = key THEN row ELSE table[k]]

\* DELETE ... WHERE key = k
Remove(table, key) == [k \in DOMAIN table \ {key} |-> table[k]]

\* The request c moves to statement p with its locals l.
Goto(c, p, l) ==
    /\ pc' = [pc EXCEPT ![c] = p]
    /\ local' = [local EXCEPT ![c] = l]
    /\ UNCHANGED <<op, args, ret, srv, gpc>>

\* The tokens controller after its model call returned (v, e):
\* Controller.Create renders 500 on an error, else 201; Controller.Get and
\* Controller.Refresh render 500 on an error, 404 on a nil token, else 200.
\* The model returns a nil token only together with an error.
\* The apps controller's Create renders 400 when the body does not bind, 404
\* on an empty service parameter, 409 on ErrExists, 500 on any other error,
\* else 201.
Render(o, v, e) ==
    IF o = "ControllerCreate"
    THEN CASE e = NoErr -> StatusCreated
           [] e = ErrBind -> StatusBadRequest
           [] e = AppsErrNotFound -> StatusNotFound
           [] e = ErrExists -> StatusConflict
           [] OTHER -> StatusInternalServerError
    ELSE
    IF o = "TokensCreate"
    THEN IF e # NoErr THEN StatusInternalServerError ELSE StatusCreated
    ELSE IF o \in {"TokensGet", "Refresh"}
         THEN IF e # NoErr THEN StatusInternalServerError
              ELSE IF v = NoToken THEN StatusNotFound
              ELSE StatusOK
         ELSE 0

\* The handler of request c returns (v, e); its locals go out of scope, the
\* counters of what it did are kept.
Return(c, v, e, l) ==
    /\ pc' = [pc EXCEPT ![c] = "done"]
    /\ ret' = [ret EXCEPT ![c] = [val |-> v, err |-> e, status |-> Render(op[c], v, e)]]
    /\ local' = [local EXCEPT ![c] =
                    [NoLocal EXCEPT !.grants = l.grants, !.refreshes = l.refreshes,
                                    !.confs = l.confs, !.late = l.late,
                                    !.existed = l.existed, !.retry = l.retry]]
    /\ UNCHANGED <<op, args, srv, gpc>>

\* A request arrives: operation o with arguments a, at its first statement.
\* The server accepts it only while its listener is open.
Begin(c, o, a) ==
    /\ srv.httpServer = "listening"
    /\ pc[c] \in {"idle", "done"}
    /\ pc' = [pc EXCEPT ![c] = o]
    /\ op' = [op EXCEPT ![c] = o]
    /\ args' = [args EXCEPT ![c] = a]
    /\ local' = [local EXCEPT ![c] =
                    [NoLocal EXCEPT !.late = /\ o = "TokensCreate"
                                             /\ pc[c] = "done"
                                             /\ op[c] = "TokensCreate"
                                             /\ ret[c].err = NoErr
                                             /\ args[c].exchangeID = a.exchangeID,
                                    !.existed = /\ o = "AppsCreate"
                                                /\ a.id \in DOMAIN apps,
                                    !.retry = /\ o = "TokensCreate"
                                              /\ pc[c] = "done"
                                              /\ op[c] = "TokensCreate"
                                              /\ ret[c].err = ErrProvider
                                              /\ args[c].exchangeID = a.exchangeID]]
    /\ ret' = [ret EXCEPT ![c] = NoRet]
    /\ UNCHANGED <<apps, exchanges, tokens, clock, srv, gpc>>

----------------------------------------------------------------------------
(* App Directory: models/apps                                              *)

\* The apps.App a SELECT of id, service, password, callback_URL, expiry,
\* created_at scans: the status column is not selected, Status stays "".
ScanApp(id) ==
    [ID |-> id, Service |-> apps[id].service, Password |-> apps[id].password,
     Status |-> ""]

\* A SELECT by service without the status predicate.
EnabledApps_anyStatus(service) == {id \in DOMAIN apps : apps[id].service = service}

\* rows matching WHERE service = $1 AND status = 'enable'
EnabledApps(service) ==
    {id \in DOMAIN apps : apps[id].service = service /\ apps[id].status = StatusEnable}

\* A GetConf whose switch has a default branch that builds a configuration for
\* any service.
ConfOf_anyService(id) ==
    [conf |-> [ClientID |-> id, ClientSecret |-> apps[id].password,
               Scopes |-> scopes(apps[id].service), Endpoint |-> apps[id].service],
     err |-> NoErr]

\* apps.Model.GetConf after its SELECT returned the row id: the oauth2.Config
\* and error of the switch over the service.
ConfOf(id) ==
    LET app == ScanApp(id) IN
    IF app.Service \in Registry
    THEN [conf |-> [ClientID |-> app.ID, ClientSecret |-> app.Password,
                    Scopes |-> scopes(app.Service), Endpoint |-> app.Service],
          err |-> NoErr]
    ELSE [conf |-> NoConf, err |-> ErrService]

\* apps.Model.GetConf: every (conf, err) the call can return in this state.
\* QueryRow takes the first matching row, in no defined order.
GetConf(service) ==
    IF EnabledApps(service) = {}
    THEN {[conf |-> NoConf, err |-> ErrNoRows]}
    ELSE {ConfOf(id) : id \in EnabledApps(service)}

GetByID(c) ==
    /\ pc[c] = "GetByID"
    /\ IF args[c].id \in DOMAIN apps
       THEN Return(c, ScanApp(args[c].id), NoErr, local[c])
       ELSE Return(c, NoApp, ErrNoRows, local[c])
    /\ UNCHANGED <<apps, exchanges, tokens, clock>>

GetByService(c) ==
    /\ pc[c] = "GetByService"
    /\ IF EnabledApps(args[c].service) = {}
       THEN Return(c, NoApp, ErrNoRows, local[c])
       ELSE \E id \in EnabledApps(args[c].service) :
                Return(c, ScanApp(id), NoErr, local[c])
    /\ UNCHANGED <<apps, exchanges, tokens, clock>>

GetConfCall(c) ==
    /\ pc[c] = "GetConf"
    /\ \E r \in GetConf(args[c].service) :
          Return(c, r.conf, r.err, [local[c] EXCEPT !.confs = @ + 1])
    /\ UNCHANGED <<apps, exchanges, tokens, clock>>

\* The status SetStatus stores in the row id.
NewStatus(id, status) == status

\* A SetStatus without the check of the status value.
SetStatus_unchecked(c) ==
    /\ pc[c] = "SetStatus"
    /\ apps' = [id \in DOMAIN apps |->
                  IF id = args[c].id
                  THEN [apps[id] EXCEPT !.status = NewStatus(id, args[c].status)]
                  ELSE apps[id]]
    /\ Return(c, NoApp, ErrNoRows, local[c])
    /\ UNCHANGED <<exchanges, tokens, clock>>

\* apps.Model.SetStatus: the UPDATE has no RETURNING clause, so QueryRow(...)
\* .Scan() finds no row and returns sql.ErrNoRows whether or not a row matched.
SetStatus(c) ==
    /\ pc[c] = "SetStatus"
    /\ IF args[c].status # StatusDisable /\ args[c].status # StatusEnable
       THEN /\ Return(c, NoApp, ErrStatus, local[c])
            /\ UNCHANGED apps
       ELSE /\ apps' = [id \in DOMAIN apps |->
                          IF id = args[c].id
                          THEN [apps[id] EXCEPT !.status = NewStatus(id, args[c].status)]
                          ELSE apps[id]]
            /\ Return(c, NoApp, ErrNoRows, local[c])
    /\ UNCHANGED <<exchanges, tokens, clock>>

\* Whether the INSERT of apps.Model.Create hits the primary key of auth.apps.
AppConflict(id) == id \in DOMAIN apps

\* A Create whose INSERT has ON CONFLICT (id) DO UPDATE: it overwrites the row
\* of the id and never reports ErrExists.
AppsCreate_overwrite(c) ==
    /\ pc[c] = "AppsCreate"
    /\ \E failed \in BOOLEAN :
          IF failed
          THEN /\ Return(c, "", ErrStorage, local[c])
               /\ UNCHANGED apps
          ELSE /\ apps' = Put(apps, args[c].id,
                              [service |-> args[c].service,
                               password |-> args[c].password,
                               status |-> args[c].status])
               /\ Return(c, args[c].id, NoErr, local[c])
    /\ UNCHANGED <<exchanges, tokens, clock>>

\* apps.Model.Create: one INSERT; SQLSTATE 23505 becomes ErrExists, any other
\* error of the statement is returned as it is.
AppsCreate(c) ==
    /\ pc[c] = "AppsCreate"
    /\ \E failed \in BOOLEAN :
          IF failed
          THEN /\ Return(c, "", ErrStorage, local[c])
               /\ UNCHANGED apps
          ELSE IF AppConflict(args[c].id)
               THEN /\ Return(c, "", ErrExists, local[c])
                    /\ UNCHANGED apps
               ELSE /\ apps' = Put(apps, args[c].id,
                                   [service |-> args[c].service,
                                    password |-> args[c].password,
                                    status |-> args[c].status])
                    /\ Return(c, args[c].id, NoErr, local[c])
    /\ UNCHANGED <<exchanges, tokens, clock>>

----------------------------------------------------------------------------
(* App Directory over HTTP: http/contollers/apps                           *)

\* The route patterns of the apps router that take a write request.
PatchStatusRoute == "PATCH /{appID}/status/{status}"
PostAppRoute == "POST /{service}/"

\* Controller.NewRouter: the handler each route is registered with.
Handler(route) ==
    CASE route = PatchStatusRoute -> "ControllerCreate"
      [] route = PostAppRoute -> "ControllerCreate"

\* chi.URLParam(r, key): the value of a parameter of the matched pattern, ""
\* for a key the pattern does not have.
URLParam(route, a, key) ==
    CASE key = "service" -> IF route = PostAppRoute THEN a.service ELSE ""
      [] key = "appID" -> IF route = PatchStatusRoute THEN a.id ELSE ""
      [] key = "status" -> IF route = PatchStatusRoute THEN a.status ELSE ""

\* Controller.Create up to the model call: render.Bind of the body, the
\* service parameter of the URL, then (no field of apps.App has a conform or
\* validate tag) the call of apps.Model.Create.
ControllerCreate(c) ==
    /\ pc[c] = "ControllerCreate"
    /\ IF args[c].body = ""
       THEN Return(c, NoApp, ErrBind, local[c])
       ELSE IF URLParam(args[c].route, args[c], "service") = ""
            THEN Return(c, NoApp, AppsErrNotFound, local[c])
            ELSE Goto(c, "ControllerCreate_create", local[c])
    /\ UNCHANGED <<apps, exchanges, tokens, clock>>

\* Controller.Create, c.models.Apps.Create(ctx, newApp) with newApp.Service set
\* from the URL
ControllerCreate_create(c) ==
    /\ pc[c] = "ControllerCreate_create"
    /\ \E failed \in BOOLEAN :
          IF failed
          THEN /\ Return(c, NoApp, ErrStorage, local[c])
               /\ UNCHANGED apps
          ELSE IF AppConflict(args[c].id)
               THEN /\ Return(c, NoApp, ErrExists, local[c])
                    /\ UNCHANGED apps
               ELSE /\ apps' = Put(apps, args[c].id,
                                   [service |-> URLParam(args[c].route, args[c], "service"),
                                    password |-> args[c].password,
                                    status |-> args[c].status])
                    /\ Goto(c, "ControllerCreate_get", local[c])
    /\ UNCHANGED <<exchanges, tokens, clock>>

\* Controller.Create, c.models.Apps.GetByID(ctx, id) and the response
ControllerCreate_get(c) ==
    /\ pc[c] = "ControllerCreate_get"
    /\ IF args[c].id \in DOMAIN apps
       THEN Return(c, ScanApp(args[c].id), NoErr, local[c])
       ELSE Return(c, NoApp, ErrNoRows, local[c])
    /\ UNCHANGED <<apps, exchanges, tokens, clock>>

----------------------------------------------------------------------------
(* Exchange Ledger: models/exchanges, and start delegation                 *)

\* helpers.RandomStr(32): any string over the 62 characters of chars
RandomStr == ExchangeIDs

\* Whether the INSERT of exchanges.Model.Create hits the key of auth.exchanges.
ExchangeConflict(id) == id \in DOMAIN exchanges

\* oauth2.Config.AuthCodeURL(state): the query parameters of the URL
AuthCodeURLOf(conf, state) ==
    [endpoint |-> conf.Endpoint, client_id |-> conf.ClientID,
     scope |-> conf.Scopes, state |-> state]

NoURL == [endpoint |-> "", client_id |-> "", scope |-> <<>>, state |-> ""]

\* A start delegation that stores its Exchange before it resolves the
\* configuration.
AuthCodeURL_insertFirst(c) ==
    /\ pc[c] = "AuthCodeURL"
    /\ \E r \in GetConf(args[c].service), id \in RandomStr :
          LET l == [local[c] EXCEPT !.confs = @ + 1, !.conf = r.conf] IN
          IF r.err # NoErr
          THEN /\ Return(c, NoURL, r.err, l)
               /\ exchanges' = IF ExchangeConflict(id)
                               THEN exchanges
                               ELSE Put(exchanges, id,
                                        [service |-> args[c].service,
                                         userID |-> args[c].userID])
          ELSE /\ Goto(c, "AuthCodeURL_create", l)
               /\ UNCHANGED exchanges
    /\ UNCHANGED <<apps, tokens, clock>>

\* apps.Model.AuthCodeURL, first statement: GetConf(service)
AuthCodeURL(c) ==
    /\ pc[c] = "AuthCodeURL"
    /\ \E r \in GetConf(args[c].service) :
          LET l == [local[c] EXCEPT !.confs = @ + 1, !.conf = r.conf] IN
          IF r.err # NoErr
          THEN Return(c, NoURL, r.err, l)
          ELSE Goto(c, "AuthCodeURL_create", l)
    /\ UNCHANGED <<apps, exchanges, tokens, clock>>

\* An INSERT that binds the service but leaves user_id at its zero value.
NewExchange_noUser(service, userID) == [service |-> service, userID |-> 0]

\* The Exchange row start delegation stores for (service, userID).
NewExchange(service, userID) == [service |-> service, userID |-> userID]

\* A start delegation that drops the Token row of its (userID, service) when it
\* issues a new Exchange.
AuthCodeURL_create_invalidate(c) ==
    /\ pc[c] = "AuthCodeURL_create"
    /\ \E id \in RandomStr :
          IF ExchangeConflict(id)
          THEN /\ Return(c, NoURL, ErrUnique, local[c])
               /\ UNCHANGED <<exchanges, tokens>>
          ELSE /\ exchanges' = Put(exchanges, id,
                                   NewExchange(args[c].service, args[c].userID))
               /\ tokens' = Remove(tokens, <<args[c].userID, args[c].service>>)
               /\ Return(c, AuthCodeURLOf(local[c].conf, id), NoErr, local[c])
    /\ UNCHANGED <<apps, clock>>

\* apps.Model.AuthCodeURL, second statement: RandomStr, exchanges.Create
AuthCodeURL_create(c) ==
    /\ pc[c] = "AuthCodeURL_create"
    /\ \E id \in RandomStr :
          IF ExchangeConflict(id)
          THEN /\ Return(c, NoURL, ErrUnique, local[c])
               /\ UNCHANGED exchanges
          ELSE /\ exchanges' = Put(exchanges, id,
                                   NewExchange(args[c].service, args[c].userID))
               /\ Return(c, AuthCodeURLOf(local[c].conf, id), NoErr, local[c])
    /\ UNCHANGED <<apps, tokens, clock>>

----------------------------------------------------------------------------
(* Token Store: models/tokens                                              *)

\* The tokens.Token a SELECT of the row <<userID, service>> scans
ScanToken(key) ==
    [TokenType |-> tokens[key].token_type, AccessToken |-> tokens[key].access_token,
     RefreshToken |-> tokens[key].refresh_token, Expiry |-> tokens[key].expiry,
     UserID |-> key[1], Service |-> key[2], CreatedAt |-> tokens[key].created_at]

\* tokens.Model.Get
TokensGet(c) ==
    /\ pc[c] = "TokensGet"
    /\ LET key == <<args[c].userID, args[c].service>> IN
       IF key \in DOMAIN tokens
       THEN Return(c, ScanToken(key), NoErr, local[c])
       ELSE Return(c, NoToken, ErrNoRows, local[c])
    /\ UNCHANGED <<apps, exchanges, tokens, clock>>

\* The token set the provider issues at logical time t, of type ty
Issue(t, ty) == [TokenType |-> ty, AccessToken |-> t, RefreshToken |-> t, Expiry |-> t]

\* tokens.Model.Create, exchanges.Get(exchangeID)
TokensCreate(c) ==
    /\ pc[c] = "TokensCreate"
    /\ LET id == args[c].exchangeID IN
       IF id \in DOMAIN exchanges
       THEN Goto(c, "TokensCreate_conf",
                 [local[c] EXCEPT !.exchange =
                     [ID |-> id, Service |-> exchanges[id].service,
                      UserID |-> exchanges[id].userID]])
       ELSE Return(c, 0, ErrNoRows, local[c])
    /\ UNCHANGED <<apps, exchanges, tokens, clock>>

\* tokens.Model.Create, apps.GetConf(exchange.Service)
TokensCreate_conf(c) ==
    /\ pc[c] = "TokensCreate_conf"
    /\ \E r \in GetConf(local[c].exchange.Service) :
          LET l == [local[c] EXCEPT !.confs = @ + 1, !.conf = r.conf] IN
          IF r.err # NoErr
          THEN Return(c, 0, r.err, l)
          ELSE Goto(c, "TokensCreate_exchange", l)
    /\ UNCHANGED <<apps, exchanges, tokens, clock>>

\* A Create that deletes the Exchange before the grant exchange is made.
TokensCreate_exchange_deleteFirst(c) ==
    /\ pc[c] = "TokensCreate_exchange"
    /\ exchanges' = Remove(exchanges, args[c].exchangeID)
    /\ \E accepted \in BOOLEAN, ty \in TokenTypes :
          LET l == [local[c] EXCEPT !.grants = @ + 1] IN
          IF accepted
          THEN /\ clock < MaxClock
               /\ clock' = clock + 1
               /\ Goto(c, "TokensCreate_delete", [l EXCEPT !.tk = Issue(clock + 1, ty)])
          ELSE /\ ty = "bearer"
               /\ Return(c, 0, ErrProvider, l)
               /\ UNCHANGED clock
    /\ UNCHANGED <<apps, tokens>>

\* and issues a token set, or the round trip fails.
TokensCreate_exchange(c) ==
    /\ pc[c] = "TokensCreate_exchange"
    /\ \E accepted \in BOOLEAN, ty \in TokenTypes :
          LET l == [local[c] EXCEPT !.grants = @ + 1] IN
          IF accepted
          THEN /\ clock < MaxClock
               /\ clock' = clock + 1
               /\ Goto(c, "TokensCreate_delete", [l EXCEPT !.tk = Issue(clock + 1, ty)])
          ELSE /\ ty = "bearer"
               /\ Return(c, 0, ErrProvider, l)
               /\ UNCHANGED clock
    /\ UNCHANGED <<apps, exchanges, tokens>>

\* A DELETE FROM auth.exchanges without its WHERE clause.
DeleteExchange_all(id, failed) == EmptyTable

\* exchanges.Model.Delete as tokens.Model.Create calls it: the error is dropped.
\* failed: the DELETE statement failed and removed nothing.
DeleteExchange(id, failed) == IF failed THEN exchanges ELSE Remove(exchanges, id)

\* A Create that returns the error of the Exchange delete.
TokensCreate_delete_checked(c) ==
    /\ pc[c] = "TokensCreate_delete"
    /\ \E failed \in BOOLEAN :
          /\ exchanges' = DeleteExchange(args[c].exchangeID, failed)
          /\ IF failed
             THEN Return(c, 0, ErrStorage, local[c])
             ELSE Goto(c, "TokensCreate_upsert", local[c])
    /\ UNCHANGED <<apps, tokens, clock>>

TokensCreate_delete(c) ==
    /\ pc[c] = "TokensCreate_delete"
    /\ \E failed \in BOOLEAN :
          exchanges' = DeleteExchange(args[c].exchangeID, failed)
    /\ Goto(c, "TokensCreate_upsert", local[c])
    /\ UNCHANGED <<apps, tokens, clock>>

\* INSERT INTO auth.tokens ... ON CONFLICT (user_id, service) DO UPDATE SET
\* access_token, refresh_token, expiry, created_at
Upsert(key, tk, now) ==
    IF key \in DOMAIN tokens
    THEN Put(tokens, key,
             [tokens[key] EXCEPT !.access_token = tk.AccessToken,
                                 !.refresh_token = tk.RefreshToken,
                                 !.expiry = tk.Expiry,
                                 !.created_at = now])
    ELSE Put(tokens, key,
             [token_type |-> tk.TokenType, access_token |-> tk.AccessToken,
              refresh_token |-> tk.RefreshToken, expiry |-> tk.Expiry,
              created_at |-> now])

\* tokens.Model.Create, the upsert and the return
TokensCreate_upsert(c) ==
    /\ pc[c] = "TokensCreate_upsert"
    /\ \E failed \in BOOLEAN :
          IF failed
          THEN /\ Return(c, 0, ErrStorage, local[c])
               /\ UNCHANGED tokens
          ELSE /\ tokens' = Upsert(<<local[c].exchange.UserID, local[c].exchange.Service>>,
                                   local[c].tk, clock)
               /\ Return(c, local[c].exchange.UserID, NoErr, local[c])
    /\ UNCHANGED <<apps, exchanges, clock>>

\* A Refresh that drops the error of its SELECT and goes on with the zero Token.
Refresh_ignoreNoRows(c) ==
    /\ pc[c] = "Refresh"
    /\ LET key == <<args[c].userID, args[c].service>> IN
       Goto(c, "Refresh_conf",
            [local[c] EXCEPT !.token =
                IF key \in DOMAIN tokens
                THEN ScanToken(key)
                ELSE [NoToken EXCEPT !.Service = args[c].service]])
    /\ UNCHANGED <<apps, exchanges, tokens, clock>>

\* tokens.Model.Refresh, the SELECT
Refresh(c) ==
    /\ pc[c] = "Refresh"
    /\ LET key == <<args[c].userID, args[c].service>> IN
       IF key \in DOMAIN tokens
       THEN Goto(c, "Refresh_conf", [local[c] EXCEPT !.token = ScanToken(key)])
       ELSE Return(c, NoToken, ErrNoRows, local[c])
    /\ UNCHANGED <<apps, exchanges, tokens, clock>>

\* tokens.Model.Refresh, apps.GetConf(token.Service)
Refresh_conf(c) ==
    /\ pc[c] = "Refresh_conf"
    /\ \E r \in GetConf(local[c].token.Service) :
          LET l == [local[c] EXCEPT !.confs = @ + 1, !.conf = r.conf] IN
          IF r.err # NoErr
          THEN Return(c, NoToken, r.err, l)
          ELSE Goto(c, "Refresh_token", l)
    /\ UNCHANGED <<apps, exchanges, tokens, clock>>

\* A Refresh that deletes the stored Token when the provider rejects the
\* refresh token.
Refresh_token_dropOnFail(c) ==
    /\ pc[c] = "Refresh_token"
    /\ \E outcome \in {"valid", "refreshed", "failed"} :
          LET t == local[c].token IN
          CASE outcome = "valid" ->
                 /\ Goto(c, "Refresh_update",
                         [local[c] EXCEPT !.newToken =
                             [TokenType |-> t.TokenType, AccessToken |-> t.AccessToken,
                              RefreshToken |-> t.RefreshToken, Expiry |-> t.Expiry]])
                 /\ UNCHANGED <<clock, tokens>>
            [] outcome = "refreshed" ->
                 /\ clock < MaxClock
                 /\ clock' = clock + 1
                 /\ Goto(c, "Refresh_update",
                         [local[c] EXCEPT !.refreshes = @ + 1,
                                          !.newToken = Issue(clock + 1, t.TokenType)])
                 /\ UNCHANGED tokens
            [] outcome = "failed" ->
                 /\ Return(c, NoToken, ErrProvider, [local[c] EXCEPT !.refreshes = @ + 1])
                 /\ tokens' = Remove(tokens, <<args[c].userID, args[c].service>>)
                 /\ UNCHANGED clock
    /\ UNCHANGED <<apps, exchanges>>

\* tokens.Model.Refresh, conf.TokenSource(ctx, token.Token).Token(): the stored
\* token when it is still valid (no round trip), else a refresh round trip,
\* which issues a new token set or fails.
Refresh_token(c) ==
    /\ pc[c] = "Refresh_token"
    /\ \E outcome \in {"valid", "refreshed", "failed"} :
          LET t == local[c].token IN
          CASE outcome = "valid" ->
                 /\ Goto(c, "Refresh_update",
                         [local[c] EXCEPT !.newToken =
                             [TokenType |-> t.TokenType, AccessToken |-> t.AccessToken,
                              RefreshToken |-> t.RefreshToken, Expiry |-> t.Expiry]])
                 /\ UNCHANGED clock
            [] outcome = "refreshed" ->
                 /\ clock < MaxClock
                 /\ clock' = clock + 1
                 /\ Goto(c, "Refresh_update",
                         [local[c] EXCEPT !.refreshes = @ + 1,
                                          !.newToken = Issue(clock + 1, t.TokenType)])
            [] outcome = "failed" ->
                 /\ Return(c, NoToken, ErrProvider, [local[c] EXCEPT !.refreshes = @ + 1])
                 /\ UNCHANGED clock
    /\ UNCHANGED <<apps, exchanges, tokens>>

\* The rows the UPDATE of tokens.Model.Refresh(userID, service) writes:
\* its WHERE clause is user_id = $1.
RefreshTargets(userID, service) == {key \in DOMAIN tokens : key[1] = userID}

\* A Refresh whose UPDATE is conditional on the row still holding the access
\* token the call read (optimistic locking).
Refresh_update_ifUnchanged(c) ==
    /\ pc[c] = "Refresh_update"
    /\ \E failed \in BOOLEAN :
          IF failed
          THEN /\ Return(c, NoToken, ErrStorage, local[c])
               /\ UNCHANGED tokens
          ELSE /\ tokens' = [key \in DOMAIN tokens |->
                               IF /\ key \in RefreshTargets(args[c].userID, args[c].service)
                                  /\ tokens[key].access_token = local[c].token.AccessToken
                               THEN [tokens[key] EXCEPT
                                        !.access_token = local[c].newToken.AccessToken,
                                        !.refresh_token = local[c].newToken.RefreshToken,
                                        !.expiry = local[c].newToken.Expiry,
                                        !.created_at = clock]
                               ELSE tokens[key]]
               /\ Return(c, local[c].token, NoErr, local[c])
    /\ UNCHANGED <<apps, exchanges, clock>>

\* A Refresh that returns the record with the new material it stored.
Refresh_update_returnsNew(c) ==
    /\ pc[c] = "Refresh_update"
    /\ \E failed \in BOOLEAN :
          IF failed
          THEN /\ Return(c, NoToken, ErrStorage, local[c])
               /\ UNCHANGED tokens
          ELSE /\ tokens' = [key \in DOMAIN tokens |->
                               IF key \in RefreshTargets(args[c].userID, args[c].service)
                               THEN [tokens[key] EXCEPT
                                        !.access_token = local[c].newToken.AccessToken,
                                        !.refresh_token = local[c].newToken.RefreshToken,
                                        !.expiry = local[c].newToken.Expiry,
                                        !.created_at = clock]
                               ELSE tokens[key]]
               /\ Return(c, [local[c].token EXCEPT
                                !.AccessToken = local[c].newToken.AccessToken,
                                !.RefreshToken = local[c].newToken.RefreshToken,
                                !.Expiry = local[c].newToken.Expiry,
                                !.CreatedAt = clock], NoErr, local[c])
    /\ UNCHANGED <<apps, exchanges, clock>>

\* tokens.Model.Refresh, the UPDATE and the return of the token read first;
\* an error of the UPDATE is returned with no token
Refresh_update(c) ==
    /\ pc[c] = "Refresh_update"
    /\ \E failed \in BOOLEAN :
          IF failed
          THEN /\ Return(c, NoToken, ErrStorage, local[c])
               /\ UNCHANGED tokens
          ELSE /\ tokens' = [key \in DOMAIN tokens |->
                               IF key \in RefreshTargets(args[c].userID, args[c].service)
                               THEN [tokens[key] EXCEPT
                                        !.access_token = local[c].newToken.AccessToken,
                                        !.refresh_token = local[c].newToken.RefreshToken,
                                        !.expiry = local[c].newToken.Expiry,
                                        !.created_at = clock]
                               ELSE tokens[key]]
               /\ Return(c, local[c].token, NoErr, local[c])
    /\ UNCHANGED <<apps, exchanges, clock>>

----------------------------------------------------------------------------
(* Requests                                                                *)

\* A request arrives at handler c: one of the operations O, its arguments
\* drawn from the App rows A, the status values T, the (service, user) pairs P
\* and the state values X.
Arrive(c, O, A, T, P, X) ==
    \E o \in O :
       CASE o = "GetByID" ->
              \E id \in {a.id : a \in A} : Begin(c, o, [NoArgs EXCEPT !.id = id])
         [] o \in {"GetByService", "GetConf"} ->
              \E s \in {a.service : a \in A} :
                 Begin(c, o, [NoArgs EXCEPT !.service = s])
         [] o = "SetStatus" ->
              \E id \in {a.id : a \in A}, st \in T :
                 Begin(c, o, [NoArgs EXCEPT !.id = id, !.status = st])
         [] o = "AppsCreate" ->
              \E a \in A :
                 Begin(c, o, [NoArgs EXCEPT !.id = a.id, !.service = a.service,
                                            !.password = a.password, !.status = a.status])
         [] o \in {"AuthCodeURL", "TokensGet", "Refresh"} ->
              \E p \in P :
                 Begin(c, o, [NoArgs EXCEPT !.service = p[1], !.userID = p[2]])
         [] o = "TokensCreate" ->
              \E code \in Codes, id \in X :
                 Begin(c, o, [NoArgs EXCEPT !.code = code, !.exchangeID = id])

\* The Apps a create request carries: a service of the registry and one that
\* is not in it
AppInputs ==
    [id : AppIDs, service : {Yandex, "github"}, password : Passwords,
     status : {StatusEnable, StatusDisable}]

\* The App Directory under two concurrent requests.
ArriveApps(c) ==
    Arrive(c, {"GetByID", "GetByService", "GetConf", "SetStatus", "AppsCreate"},
           AppInputs, StatusInputs, Services \X Users, ExchangeIDs)

NextApps ==
    \E c \in Calls :
       \/ ArriveApps(c)
       \/ GetByID(c)
       \/ GetByService(c)
       \/ GetConfCall(c)
       \/ SetStatus(c)
       \/ AppsCreate(c)

SpecApps == Init /\ [][NextApps]_vars

\* The Apps the delegation flows are run with: one per supported service.
Registered ==
    {[id |-> "app1", service |-> Yandex, password |-> "secret", status |-> StatusEnable],
     [id |-> "app2", service |-> Google, password |-> "secret", status |-> StatusEnable]}

\* The (service, user) pairs the sequential requests name: two services of
\* one user.
Pairs == {<<Yandex, 42>>, <<Google, 42>>}

\* The delegation engine under a sequence of requests, one at a time.
ArriveSeq(c) ==
    Arrive(c, {"SetStatus", "AuthCodeURL", "TokensGet", "Refresh", "TokensCreate"},
           Registered, {StatusEnable, StatusDisable}, Pairs, ExchangeIDs)

Next ==
    \E c \in {1} :
       \/ ArriveSeq(c)
       \/ SetStatus(c)
       \/ AuthCodeURL(c)
       \/ AuthCodeURL_create(c)
       \/ TokensGet(c)
       \/ TokensCreate(c)
       \/ TokensCreate_conf(c)
       \/ TokensCreate_exchange(c)
       \/ TokensCreate_delete(c)
       \/ TokensCreate_upsert(c)
       \/ Refresh(c)
       \/ Refresh_conf(c)
       \/ Refresh_token(c)
       \/ Refresh_update(c)

\* The database after the Apps of Registered have been created
InitDeleg ==
    /\ apps = [id \in {a.id : a \in Registered} |->
                 LET a == CHOOSE r \in Registered : r.id = id IN
                 [service |-> a.service, password |-> a.password, status |-> a.status]]
    /\ exchanges = EmptyTable
    /\ tokens = EmptyTable
    /\ clock = 0
    /\ pc = [c \in Calls |-> "idle"]
    /\ op = [c \in Calls |-> ""]
    /\ args = [c \in Calls |-> NoArgs]
    /\ local = [c \in Calls |-> NoLocal]
    /\ ret = [c \in Calls |-> NoRet]
    /\ Serving

Spec == InitDeleg /\ [][Next]_vars

\* Start and complete delegation, one request at a time, for every user and
\* every service that has an App.
ArriveGrant(c) ==
    Arrive(c, {"AuthCodeURL", "TokensCreate"},
           Registered, {StatusEnable, StatusDisable},
           {a.service : a \in Registered} \X Users, ExchangeIDs)

NextGrant ==
    \E c \in {1} :
       \/ ArriveGrant(c)
       \/ AuthCodeURL(c)
       \/ AuthCodeURL_create(c)
       \/ TokensCreate(c)
       \/ TokensCreate_conf(c)
       \/ TokensCreate_exchange(c)
       \/ TokensCreate_delete(c)
       \/ TokensCreate_upsert(c)

SpecGrant == InitDeleg /\ [][NextGrant]_vars

\* Start and complete delegation of one (service, user) under two concurrent
\* requests.
ArriveRace(c) ==
    Arrive(c, {"AuthCodeURL", "TokensCreate"},
           Registered, {StatusEnable, StatusDisable}, {<<Yandex, 42>>}, ExchangeIDs)

NextRace ==
    \E c \in Calls :
       \/ ArriveRace(c)
       \/ AuthCodeURL(c)
       \/ AuthCodeURL_create(c)
       \/ TokensCreate(c)
       \/ TokensCreate_conf(c)
       \/ TokensCreate_exchange(c)
       \/ TokensCreate_delete(c)
       \/ TokensCreate_upsert(c)

SpecRace == InitDeleg /\ [][NextRace]_vars

\* The database after user 42 has completed a delegation for yandex: the
\* provider has issued one token set, stored in the row of (42, yandex).
InitGranted ==
    /\ apps = [id \in {a.id : a \in Registered} |->
                 LET a == CHOOSE r \in Registered : r.id = id IN
                 [service |-> a.service, password |-> a.password, status |-> a.status]]
    /\ exchanges = EmptyTable
    /\ clock = 1
    /\ tokens = [key \in {<<42, Yandex>>} |->
                   [token_type |-> Issue(1, "bearer").TokenType,
                    access_token |-> Issue(1, "bearer").AccessToken,
                    refresh_token |-> Issue(1, "bearer").RefreshToken,
                    expiry |-> Issue(1, "bearer").Expiry,
                    created_at |-> 1]]
    /\ pc = [c \in Calls |-> "idle"]
    /\ op = [c \in Calls |-> ""]
    /\ args = [c \in Calls |-> NoArgs]
    /\ local = [c \in Calls |-> NoLocal]
    /\ ret = [c \in Calls |-> NoRet]
    /\ Serving

\* Fetch and refresh of the Token of (42, yandex) under two concurrent requests.
ArriveRefresh(c) ==
    Arrive(c, {"TokensGet", "Refresh"},
           Registered, {StatusEnable, StatusDisable}, {<<Yandex, 42>>}, ExchangeIDs)

NextRefresh ==
    \E c \in Calls :
       \/ ArriveRefresh(c)
       \/ TokensGet(c)
       \/ Refresh(c)
       \/ Refresh_conf(c)
       \/ Refresh_token(c)
       \/ Refresh_update(c)

SpecRefresh == InitGranted /\ [][NextRefresh]_vars

\* The (service, user) pairs of the start requests: a service of the registry
\* and one that is not in it.
StartPairs == {<<Yandex, 42>>, <<"github", 42>>}

\* Registration of Apps, status changes and start delegation, one request at
\* a time, from the empty database.
ArriveStart(c) ==
    Arrive(c, {"AppsCreate", "SetStatus", "AuthCodeURL"},
           AppInputs, {StatusEnable, StatusDisable}, StartPairs, ExchangeIDs)

NextStart ==
    \E c \in {1} :
       \/ ArriveStart(c)
       \/ AppsCreate(c)
       \/ SetStatus(c)
       \/ AuthCodeURL(c)
       \/ AuthCodeURL_create(c)

SpecStart == Init /\ [][NextStart]_vars

\* A write request of the apps router arrives at handler c: a PATCH of the
\* status of an App, or a POST of an App for a service, with a body that
\* holds an App or does not.
ArriveRouter(c) ==
    \E route \in {PatchStatusRoute, PostAppRoute}, a \in AppInputs, body \in {"", "app"} :
       Begin(c, Handler(route),
             IF route = PatchStatusRoute
             THEN [NoArgs EXCEPT !.route = route, !.body = body,
                                 !.id = a.id, !.status = a.status]
             ELSE [NoArgs EXCEPT !.route = route, !.body = body,
                                 !.id = a.id, !.service = a.service,
                                 !.password = a.password, !.status = a.status])

\* The write routes of the apps router, one request at a time.
NextRouter ==
    \E c \in {1} :
       \/ ArriveRouter(c)
       \/ ControllerCreate(c)
       \/ ControllerCreate_create(c)
       \/ ControllerCreate_get(c)

SpecRouter == Init /\ [][NextRouter]_vars

----------------------------------------------------------------------------
(* Server lifecycle: auth.go                                               *)

\* The tables, which no statement of Run and Stop touches, and the requests.
database == <<apps, exchanges, tokens, clock>>
requests == <<pc, op, args, local, ret>>

\* auth.Run, runHTTPServer: wg.Add(1), then the go statement
Run ==
    /\ gpc.main = "newAuth"
    /\ srv' = [srv EXCEPT !.wg = @ + 1]
    /\ gpc' = [main |-> "running", serve |-> "ListenAndServe"]
    /\ UNCHANGED <<database, requests>>

\* httpServer.ListenAndServe on a server not yet shut down: net.Listen opens
\* the listener and the accept loop runs, or net.Listen fails and the call
\* returns that error, which is not ErrServerClosed: the goroutine calls Stop.
ListenAndServe ==
    /\ gpc.serve = "ListenAndServe"
    /\ srv.httpServer = "new"
    /\ \E listened \in BOOLEAN :
          IF listened
          THEN /\ srv' = [srv EXCEPT !.httpServer = "listening"]
               /\ UNCHANGED gpc
          ELSE /\ srv' = [srv EXCEPT !.httpServer = "failed"]
               /\ gpc' = [gpc EXCEPT !.serve = "Shutdown"]
    /\ UNCHANGED <<database, requests>>

\* ListenAndServe returns an Accept error while it serves: the listener is
\* closed, the requests in flight go on, the goroutine calls Stop.
ListenAndServe_error ==
    /\ gpc.serve = "ListenAndServe"
    /\ srv.httpServer = "listening"
    /\ srv' = [srv EXCEPT !.httpServer = "failed"]
    /\ gpc' = [gpc EXCEPT !.serve = "Shutdown"]
    /\ UNCHANGED <<database, requests>>

\* ListenAndServe returns ErrServerClosed once Shutdown has been called: the
\* goroutine function returns, its deferred call is left to run.
ListenAndServe_closed ==
    /\ gpc.serve = "ListenAndServe"
    /\ srv.httpServer = "closed"
    /\ gpc' = [gpc EXCEPT !.serve = "return"]
    /\ UNCHANGED <<srv, database, requests>>

\* main calls auth.Stop (on a termination signal).
Stop ==
    /\ gpc.main = "running"
    /\ gpc' = [gpc EXCEPT !.main = "Shutdown"]
    /\ UNCHANGED <<srv, database, requests>>

\* auth.Stop in goroutine g, httpServer.Shutdown: the listeners are closed
Shutdown(g) ==
    /\ gpc[g] = "Shutdown"
    /\ srv' = [srv EXCEPT !.httpServer = "closed"]
    /\ gpc' = [gpc EXCEPT ![g] = "Shutdown_idle"]
    /\ UNCHANGED <<database, requests>>

\* httpServer.Shutdown(context.Background()) returns when no request is being
\* handled.
Shutdown_idle(g) ==
    /\ gpc[g] = "Shutdown_idle"
    /\ \A c \in Calls : pc[c] \in {"idle", "done"}
    /\ gpc' = [gpc EXCEPT ![g] = "Wait"]
    /\ UNCHANGED <<srv, database, requests>>

\* auth.Stop in goroutine g, wg.Wait: returns when the counter is zero
Wait(g) ==
    /\ gpc[g] = "Wait"
    /\ srv.wg = 0
    /\ gpc' = [gpc EXCEPT ![g] = "return"]
    /\ UNCHANGED <<srv, database, requests>>

\* The deferred wg.Done of the goroutine of runHTTPServer, run when its
\* function returns.
Done ==
    /\ gpc.serve = "return"
    /\ srv' = [srv EXCEPT !.wg = @ - 1]
    /\ gpc' = [gpc EXCEPT !.serve = "exited"]
    /\ UNCHANGED <<database, requests>>

\* The requests the server handles while the process starts and stops:
\* complete delegations whose state names no Exchange, which end at the lookup.
ArriveServer(c) ==
    Arrive(c, {"TokensCreate"},
           Registered, {StatusEnable, StatusDisable}, {<<Yandex, 42>>}, ExchangeIDs)

\* The process from newAuth on, over the database of the registered Apps.
InitServer ==
    /\ apps = [id \in {a.id : a \in Registered} |->
                 LET a == CHOOSE r \in Registered : r.id = id IN
                 [service |-> a.service, password |-> a.password, status |-> a.status]]
    /\ exchanges = EmptyTable
    /\ tokens = EmptyTable
    /\ clock = 0
    /\ pc = [c \in Calls |-> "idle"]
    /\ op = [c \in Calls |-> ""]
    /\ args = [c \in Calls |-> NoArgs]
    /\ local = [c \in Calls |-> NoLocal]
    /\ ret = [c \in Calls |-> NoRet]
    /\ Constructed

NextServer ==
    \/ Run
    \/ ListenAndServe
    \/ ListenAndServe_error
    \/ ListenAndServe_closed
    \/ Stop
    \/ Done
    \/ \E g \in Goroutines :
          \/ Shutdown(g)
          \/ Shutdown_idle(g)
          \/ Wait(g)
    \/ \E c \in Calls :
          \/ ArriveServer(c)
          \/ TokensCreate(c)

\* The Go scheduler runs every goroutine that can take a step, and a handler
\* that has started runs to its end. When a signal comes, when a request
\* comes and whether the listener fails are left open.
FairServer ==
    /\ WF_vars(ListenAndServe)
    /\ WF_vars(ListenAndServe_closed)
    /\ WF_vars(Done)
    /\ \A g \in Goroutines :
          /\ WF_vars(Shutdown(g))
          /\ WF_vars(Shutdown_idle(g))
          /\ WF_vars(Wait(g))
    /\ \A c \in Calls : WF_vars(TokensCreate(c))

SpecServer == InitServer /\ [][NextServer]_vars /\ FairServer

----------------------------------------------------------------------------
(* Claims                                                                  *)

\* The key of auth.tokens a request names
KeyOf(c) == <<args[c].userID, args[c].service>>

\* Request c takes the step from statement p to statement q.
Moves(c, p, q) == pc[c] = p /\ pc'[c] = q

\* C1: once a complete delegation has returned the userID for an exchangeID, a
\* later complete delegation with the same exchangeID does not get past the
\* Exchange lookup: it fails with NotFound (sql.ErrNoRows), makes no grant
\* exchange and never reaches the Token upsert.
C1_SingleUse ==
    \A c \in Calls :
       local[c].late =>
          /\ pc[c] \in {"TokensCreate", "done"}
          /\ pc[c] = "done" => ret[c].err = ErrNoRows /\ local[c].grants = 0

\* C2: two complete delegations that run concurrently with the same
\* exchangeID never both hold a token set from the provider: at most one of
\* them gets past the grant exchange.
C2_ExactlyOnce ==
    \A c, d \in Calls :
       (/\ c # d
        /\ op[c] = "TokensCreate"
        /\ op[d] = "TokensCreate"
        /\ args[c].exchangeID = args[d].exchangeID)
       => ~(pc[c] = "TokensCreate_delete" /\ pc[d] = "TokensCreate_delete")

\* C3: after a successful complete delegation the Token row of the Exchange's
\* (userID, service) holds, in every field of its token material, the value
\* the provider returned to this call.
C3_UpsertNoMerge ==
    [][\A c \in Calls :
          (Moves(c, "TokensCreate_upsert", "done") /\ ret'[c].err = NoErr) =>
             LET key == <<local[c].exchange.UserID, local[c].exchange.Service>>
                 tk == local[c].tk
             IN /\ key \in DOMAIN tokens'
                /\ tokens'[key].token_type = tk.TokenType
                /\ tokens'[key].access_token = tk.AccessToken
                /\ tokens'[key].refresh_token = tk.RefreshToken
                /\ tokens'[key].expiry = tk.Expiry]_vars

\* C4: a successful refresh(userID, service) writes the new token material to
\* the row of (userID, service) and leaves every other Token row as it was.
C4_RefreshOneRow ==
    [][\A c \in Calls :
          (Moves(c, "Refresh_update", "done") /\ ret'[c].err = NoErr) =>
             /\ tokens'[KeyOf(c)].access_token = local[c].newToken.AccessToken
             /\ tokens'[KeyOf(c)].refresh_token = local[c].newToken.RefreshToken
             /\ tokens'[KeyOf(c)].expiry = local[c].newToken.Expiry
             /\ \A key \in DOMAIN tokens :
                   key # KeyOf(c) => tokens'[key] = tokens[key]]_vars

\* C5: start delegation for (service, userID) stores, under an id no Exchange
\* has, an Exchange of exactly that (service, userID) and returns that id as
\* the state of the URL; rows of the ledger never change while they exist;
\* complete delegation reads the Exchange of the exchangeID it is given, and
\* when it succeeds it returns that Exchange's userID and writes the Token row
\* of that Exchange's (userID, service) and no other row.
C5_Correlation ==
    [][\A c \in Calls :
          /\ (Moves(c, "AuthCodeURL_create", "done") /\ ret'[c].err = NoErr) =>
                LET id == ret'[c].val.state IN
                /\ id \notin DOMAIN exchanges
                /\ id \in DOMAIN exchanges'
                /\ exchanges'[id].service = args[c].service
                /\ exchanges'[id].userID = args[c].userID
                /\ \A x \in DOMAIN exchanges : exchanges'[x] = exchanges[x]
          /\ \A x \in DOMAIN exchanges \cap DOMAIN exchanges' :
                exchanges'[x] = exchanges[x]
          /\ Moves(c, "TokensCreate", "TokensCreate_conf") =>
                /\ args[c].exchangeID \in DOMAIN exchanges
                /\ local'[c].exchange.ID = args[c].exchangeID
                /\ local'[c].exchange.Service = exchanges[args[c].exchangeID].service
                /\ local'[c].exchange.UserID = exchanges[args[c].exchangeID].userID
          /\ (pc[c] \in {"TokensCreate_conf", "TokensCreate_exchange",
                         "TokensCreate_delete", "TokensCreate_upsert"}
              /\ pc'[c] # "done") =>
                local'[c].exchange = local[c].exchange
          /\ (Moves(c, "TokensCreate_upsert", "done") /\ ret'[c].err = NoErr) =>
                LET key == <<local[c].exchange.UserID, local[c].exchange.Service>> IN
                /\ local[c].exchange.ID = args[c].exchangeID
                /\ ret'[c].val = local[c].exchange.UserID
                /\ DOMAIN tokens' = DOMAIN tokens \cup {key}
                /\ tokens'[key].access_token = local[c].tk.AccessToken
                /\ \A k \in DOMAIN tokens : k # key => tokens'[k] = tokens[k]]_vars

\* A complete delegation has returned user 7 for a state issued to
\* (google, 7), and the only Token row is the one of (7, google).
C5_Witness ==
    \E c \in Calls :
       /\ pc[c] = "done"
       /\ op[c] = "TokensCreate"
       /\ ret[c].err = NoErr
       /\ ret[c].val = 7
       /\ DOMAIN tokens = {<<7, Google>>}

\* C6: an Exchange row stays in the ledger, with the same (service, userID),
\* over every step except the Exchange delete of a complete delegation that
\* was given its id and holds a token set from a successful grant exchange;
\* and while the row is there the lookup of a complete delegation finds it.
C6_Retrievable ==
    [][/\ \A id \in DOMAIN exchanges :
             \/ /\ id \in DOMAIN exchanges'
                /\ exchanges'[id] = exchanges[id]
             \/ \E c \in Calls :
                   /\ Moves(c, "TokensCreate_delete", "TokensCreate_upsert")
                   /\ args[c].exchangeID = id
                   /\ local[c].grants >= 1
                   /\ local[c].tk # NoOAuthToken
       /\ \A c \in Calls :
             (/\ pc[c] = "TokensCreate"
              /\ pc'[c] # "TokensCreate"
              /\ args[c].exchangeID \in DOMAIN exchanges) =>
                /\ pc'[c] = "TokensCreate_conf"
                /\ local'[c].exchange =
                      [ID |-> args[c].exchangeID,
                       Service |-> exchanges[args[c].exchangeID].service,
                       UserID |-> exchanges[args[c].exchangeID].userID]]_vars

\* A complete delegation has failed at the grant exchange and its Exchange is
\* still in the ledger, next to a Token row written by another delegation.
C6_Witness ==
    \E c \in Calls :
       /\ pc[c] = "done"
       /\ op[c] = "TokensCreate"
       /\ ret[c].err = ErrProvider
       /\ local[c].grants = 1
       /\ args[c].exchangeID \in DOMAIN exchanges
       /\ tokens # EmptyTable

\* C7: the first statement of refresh(userID, service), when (userID, service)
\* has no Token row, ends the call with the no-row error of the SELECT
\* (sql.ErrNoRows, the model layer's NotFound) and no token; the call has made
\* no provider round trip and no GetConf call, and no row of any table and no
\* provider state has changed.
C7_RefreshAbsent ==
    [][\A c \in Calls :
          (/\ pc[c] = "Refresh"
           /\ pc'[c] # "Refresh"
           /\ KeyOf(c) \notin DOMAIN tokens) =>
             /\ pc'[c] = "done"
             /\ ret'[c].err = ErrNoRows
             /\ ret'[c].val = NoToken
             /\ local'[c].refreshes = 0
             /\ local'[c].confs = 0
             /\ local'[c].grants = 0
             /\ UNCHANGED <<apps, exchanges, tokens, clock>>]_vars

\* A refresh of (42, google) has failed with the no-row error while the same
\* user has a Token row for yandex.
C7_Witness ==
    \E c \in Calls :
       /\ pc[c] = "done"
       /\ op[c] = "Refresh"
       /\ args[c].service = Google
       /\ ret[c].err = ErrNoRows
       /\ local[c].confs = 0
       /\ DOMAIN tokens = {<<42, Yandex>>}

\* C8: GetConf(service) for a service outside the registry that has an enabled
\* App returns ErrService and no configuration; for a service without an
\* enabled App it returns sql.ErrNoRows; the two errors differ.
C8_Unsupported ==
    [][\A c \in Calls :
          Moves(c, "GetConf", "done") =>
             LET s == args[c].service IN
             /\ (s \notin Registry /\ EnabledApps(s) # {}) =>
                   ret'[c].err = ErrService /\ ret'[c].val = NoConf
             /\ EnabledApps(s) = {} => ret'[c].err = ErrNoRows
             /\ ret'[c].err = ErrService => s \notin Registry
             /\ ErrService # ErrNoRows]_vars

\* GetConf("github") has returned ErrService while an enabled App of the
\* service github is stored.
C8_Witness ==
    \E c \in Calls :
       /\ pc[c] = "done"
       /\ op[c] = "GetConf"
       /\ args[c].service = "github"
       /\ ret[c].err = ErrService
       /\ EnabledApps("github") # {}

\* Requests c and d are two App creates of one id that were both in flight
\* before a row of that id existed, and both have returned.
BothCreated(c, d) ==
    /\ c # d
    /\ pc[c] = "done" /\ pc[d] = "done"
    /\ op[c] = "AppsCreate" /\ op[d] = "AppsCreate"
    /\ args[c].id = args[d].id
    /\ ~local[c].existed /\ ~local[d].existed

\* Request c is the create that stored the row of its id.
Won(c) ==
    /\ ret[c].err = NoErr
    /\ ret[c].val = args[c].id
    /\ args[c].id \in DOMAIN apps
    /\ apps[args[c].id] = [service |-> args[c].service, password |-> args[c].password,
                           status |-> args[c].status]

AfterSetStatus(id, st) ==
    /\ id \in DOMAIN apps
    /\ apps[id].status = st
    /\ \A other \in DOMAIN apps : apps[other].service = apps[id].service => other = id
    /\ \E d \in Calls :
          /\ pc[d] = "done"
          /\ op[d] = "SetStatus"
          /\ args[d].id = id
          /\ args[d].status = st

\* C10: after setStatus(id, "enable") on an existing App, GetByService of its
\* service returns that App; after setStatus(id, "disable"), GetByService of
\* its service fails with the no-row error and GetByID(id) returns the App
\* with the status disable.
C10_StatusDrivesResolve ==
    [][\A c \in Calls, id \in DOMAIN apps :
          /\ (Moves(c, "GetByService", "done") /\ args[c].service = apps[id].service) =>
                /\ AfterSetStatus(id, StatusEnable) =>
                      ret'[c].err = NoErr /\ ret'[c].val.ID = id
                /\ AfterSetStatus(id, StatusDisable) => ret'[c].err = ErrNoRows
          /\ (Moves(c, "GetByID", "done") /\ args[c].id = id
              /\ AfterSetStatus(id, StatusDisable)) =>
                /\ ret'[c].err = NoErr
                /\ ret'[c].val.ID = id
                /\ ret'[c].val.Status = StatusDisable]_vars

\* C11: a grant exchange that fails ends complete delegation with the
\* provider's error and no userID, with every Exchange row and every Token row
\* as before and the Exchange of the call still in the ledger; a complete
\* delegation that follows with the same exchangeID gets past the Exchange
\* lookup and reaches the provider again.
C11_FailedGrant ==
    [][\A c \in Calls :
          /\ (Moves(c, "TokensCreate_exchange", "done")) =>
                /\ ret'[c].err = ErrProvider
                /\ ret'[c].val = 0
                /\ exchanges' = exchanges
                /\ tokens' = tokens
                /\ args[c].exchangeID \in DOMAIN exchanges'
                /\ exchanges'[args[c].exchangeID].service = local[c].exchange.Service
                /\ exchanges'[args[c].exchangeID].userID = local[c].exchange.UserID
          /\ (local[c].retry /\ pc[c] = "TokensCreate" /\ pc'[c] # "TokensCreate") =>
                pc'[c] = "TokensCreate_conf"]_vars

\* A complete delegation has returned the userID after an attempt with the
\* same exchangeID failed at the grant exchange.
C11_Witness ==
    \E c \in Calls :
       /\ local[c].retry
       /\ pc[c] = "done"
       /\ op[c] = "TokensCreate"
       /\ ret[c].err = NoErr
       /\ ret[c].val = 42
       /\ local[c].grants = 1
       /\ tokens # EmptyTable

\* C12: SetStatus with a status that is neither "enable" nor "disable" returns
\* ErrStatus and no App, whether or not the id has a row, and leaves every
\* table as it was.
C12_InvalidStatus ==
    [][\A c \in Calls :
          (/\ pc[c] = "SetStatus"
           /\ pc'[c] # "SetStatus"
           /\ args[c].status \notin {StatusEnable, StatusDisable}) =>
             /\ pc'[c] = "done"
             /\ ret'[c].err = ErrStatus
             /\ ret'[c].val = NoApp
             /\ UNCHANGED <<apps, exchanges, tokens, clock>>]_vars

\* SetStatus(id, "paused") has returned ErrStatus for an App that is stored
\* and enabled.
C12_Witness ==
    \E c \in Calls :
       /\ pc[c] = "done"
       /\ op[c] = "SetStatus"
       /\ args[c].status = "paused"
       /\ ret[c].err = ErrStatus
       /\ args[c].id \in DOMAIN apps
       /\ apps[args[c].id].status = StatusEnable

\* C13: fetching the token of a (userID, service) without a Token row ends
\* with the no-row error from tokens.Model.Get and with the status 404, not
\* 500, from the handler; no table changes.
C13_FetchNotFound ==
    [][\A c \in Calls :
          (Moves(c, "TokensGet", "done") /\ KeyOf(c) \notin DOMAIN tokens) =>
             /\ ret'[c].err = ErrNoRows
             /\ ret'[c].status = StatusNotFound
             /\ ret'[c].status # StatusInternalServerError
             /\ UNCHANGED <<apps, exchanges, tokens, clock>>]_vars

\* C14: the Exchange delete of complete delegation never ends the call: when
\* it removes nothing and the Exchange row stays, the call goes on to the
\* upsert with its token set; an upsert that succeeds with the residual row in
\* the ledger writes the Token row of the Exchange's (userID, service) with the
\* provider's access token, returns the userID and leaves the residual row.
C14_BestEffortCleanup ==
    [][\A c \in Calls :
          /\ (pc[c] = "TokensCreate_delete" /\ pc'[c] # "TokensCreate_delete") =>
                /\ pc'[c] = "TokensCreate_upsert"
                /\ local'[c] = local[c]
                /\ ret'[c] = ret[c]
          /\ (/\ Moves(c, "TokensCreate_upsert", "done")
              /\ args[c].exchangeID \in DOMAIN exchanges
              /\ ret'[c].err # ErrStorage) =>
                LET key == <<local[c].exchange.UserID, local[c].exchange.Service>> IN
                /\ ret'[c].err = NoErr
                /\ ret'[c].val = local[c].exchange.UserID
                /\ key \in DOMAIN tokens'
                /\ tokens'[key].access_token = local[c].tk.AccessToken
                /\ tokens'[key].refresh_token = local[c].tk.RefreshToken
                /\ exchanges' = exchanges]_vars

\* A complete delegation has returned the userID and written the Token row
\* while its Exchange row is still in the ledger.
C14_Witness ==
    \E c \in Calls :
       /\ pc[c] = "done"
       /\ op[c] = "TokensCreate"
       /\ ret[c].err = NoErr
       /\ args[c].exchangeID \in DOMAIN exchanges
       /\ ret[c].val = exchanges[args[c].exchangeID].userID
       /\ <<ret[c].val, exchanges[args[c].exchangeID].service>> \in DOMAIN tokens

\* C15: when the upsert of complete delegation fails after the grant exchange,
\* the call returns an error and no userID, every Token row is as before and
\* the Exchange row of its exchangeID is gone.
C15_DeletedBeforeUpsert ==
    [][\A c \in Calls :
          (Moves(c, "TokensCreate_upsert", "done") /\ ret'[c].err # NoErr) =>
             /\ ret'[c].val = 0
             /\ tokens' = tokens
             /\ args[c].exchangeID \notin DOMAIN exchanges']_vars

\* C16: refresh takes no lock and makes no comparison: its SELECT reads the
\* stored Token whatever other refresh is in flight, and its UPDATE, unless
\* the statement fails, writes the call's new material over the row whatever
\* the row holds by then, also when the row no longer holds the token the call
\* read.
C16_LastWriteWins ==
    [][\A c \in Calls :
          /\ (pc[c] = "Refresh" /\ pc'[c] # "Refresh" /\ KeyOf(c) \in DOMAIN tokens) =>
                /\ pc'[c] = "Refresh_conf"
                /\ local'[c].token = ScanToken(KeyOf(c))
          /\ (Moves(c, "Refresh_update", "done") /\ ret'[c].err = NoErr) =>
                /\ tokens'[KeyOf(c)].access_token = local[c].newToken.AccessToken
                /\ tokens'[KeyOf(c)].refresh_token = local[c].newToken.RefreshToken
                /\ tokens'[KeyOf(c)].expiry = local[c].newToken.Expiry]_vars

\* Two concurrent refreshes of (42, yandex) have both returned the token set 1
\* they both read, each after a refresh round trip of its own (token sets 2
\* and 3 were issued); the row holds token set 2, written last, and the refresh
\* token of token set 3 is in no row.
C16_Witness ==
    /\ pc[1] = "done" /\ pc[2] = "done"
    /\ op[1] = "Refresh" /\ op[2] = "Refresh"
    /\ ret[1].err = NoErr /\ ret[2].err = NoErr
    /\ ret[1].val = ret[2].val
    /\ ret[1].val.RefreshToken = 1
    /\ local[1].refreshes = 1 /\ local[2].refreshes = 1
    /\ clock = 3
    /\ tokens[<<42, Yandex>>].refresh_token = 2
    /\ \A key \in DOMAIN tokens : tokens[key].refresh_token # 3

\* C17: the steps of start delegation change no Token row and no App; the one
\* that succeeds adds one Exchange row under a new id and changes no other
\* Exchange row.  A Token row changes only in a successful upsert of complete
\* delegation or in the UPDATE of refresh, and the fetch of a stored row
\* returns that row.
C17_StartKeepsTokens ==
    [][\A c \in Calls :
          /\ (pc[c] \in {"AuthCodeURL", "AuthCodeURL_create"} /\ pc'[c] # pc[c]) =>
                /\ tokens' = tokens
                /\ apps' = apps
                /\ \A x \in DOMAIN exchanges :
                      x \in DOMAIN exchanges' /\ exchanges'[x] = exchanges[x]
                /\ IF pc[c] = "AuthCodeURL_create" /\ ret'[c].err = NoErr
                   THEN /\ ret'[c].val.state \notin DOMAIN exchanges
                        /\ DOMAIN exchanges' = DOMAIN exchanges \cup {ret'[c].val.state}
                   ELSE exchanges' = exchanges
          /\ (pc[c] # pc'[c] /\ tokens' # tokens) =>
                \/ Moves(c, "TokensCreate_upsert", "done") /\ ret'[c].err = NoErr
                \/ Moves(c, "Refresh_update", "done")
          /\ (Moves(c, "TokensGet", "done") /\ KeyOf(c) \in DOMAIN tokens) =>
                /\ ret'[c].err = NoErr
                /\ ret'[c].val = ScanToken(KeyOf(c))
                /\ ret'[c].status = StatusOK]_vars

\* A start delegation for (42, yandex) has returned a URL while the Token row
\* of (42, yandex) is stored, and the Exchange of its state is in the ledger.
C17_Witness ==
    \E c \in Calls :
       /\ pc[c] = "done"
       /\ op[c] = "AuthCodeURL"
       /\ ret[c].err = NoErr
       /\ args[c].service = Yandex
       /\ <<42, Yandex>> \in DOMAIN tokens
       /\ tokens[<<42, Yandex>>].access_token = 1
       /\ ret[c].val.state \in DOMAIN exchanges
       /\ exchanges[ret[c].val.state] = NewExchange(Yandex, 42)

\* No stored App has the service and the status enable.
NoEnabledApp(service) ==
    \A id \in DOMAIN apps :
       ~(apps[id].service = service /\ apps[id].status = StatusEnable)

\* C18: SetStatus(id, "disable") leaves the App id stored as disabled, and
\* from then on every GetConf of a service without an enabled App fails with
\* the no-row error: start delegation ends there and adds no Exchange;
\* complete delegation ends there with no grant exchange made, its Exchange
\* still in the ledger and no Token row changed; refresh ends there with no
\* refresh round trip made and no Token row changed.
C18_NoCaching ==
    [][\A c \in Calls :
          /\ (/\ Moves(c, "SetStatus", "done")
              /\ args[c].status = StatusDisable
              /\ args[c].id \in DOMAIN apps) =>
                apps'[args[c].id].status = StatusDisable
          /\ (/\ pc[c] = "AuthCodeURL" /\ pc'[c] # "AuthCodeURL"
              /\ NoEnabledApp(args[c].service)) =>
                /\ pc'[c] = "done"
                /\ ret'[c].err = ErrNoRows
                /\ exchanges' = exchanges
          /\ (/\ pc[c] = "TokensCreate_conf" /\ pc'[c] # "TokensCreate_conf"
              /\ NoEnabledApp(local[c].exchange.Service)) =>
                /\ pc'[c] = "done"
                /\ ret'[c].err = ErrNoRows
                /\ local'[c].grants = 0
                /\ exchanges' = exchanges
                /\ args[c].exchangeID \in DOMAIN exchanges'
                /\ tokens' = tokens
                /\ clock' = clock
          /\ (/\ pc[c] = "Refresh_conf" /\ pc'[c] # "Refresh_conf"
              /\ NoEnabledApp(local[c].token.Service)) =>
                /\ pc'[c] = "done"
                /\ ret'[c].err = ErrNoRows
                /\ local'[c].refreshes = 0
                /\ tokens' = tokens
                /\ clock' = clock]_vars

\* A complete delegation for an Exchange of yandex has failed with the no-row
\* error at GetConf, without a grant exchange, after the App of yandex was
\* disabled; the Exchange is still in the ledger.
C18_Witness ==
    \E c \in Calls :
       /\ pc[c] = "done"
       /\ op[c] = "TokensCreate"
       /\ ret[c].err = ErrNoRows
       /\ local[c].confs = 1
       /\ local[c].grants = 0
       /\ args[c].exchangeID \in DOMAIN exchanges
       /\ exchanges[args[c].exchangeID].service = Yandex
       /\ apps["app1"].status = StatusDisable
       /\ NoEnabledApp(Yandex)

\* C19: in every state reached by App creates and SetStatus calls, every
\* service has at most one App with the status enable.
C19_OneEnabledPerService ==
    \A service \in Services : Cardinality(EnabledApps(service)) <= 1

\* C20: the step that ends a successful refresh(userID, service) returns the
\* record of the row of (userID, service) as it is stored before the UPDATE,
\* which is the record the call read at its start, and leaves in that row the
\* access token, refresh token and expiry of the call's new token and the
\* time of the write as created_at.
C20_ReturnsPrevious ==
    [][\A c \in Calls :
          (Moves(c, "Refresh_update", "done") /\ ret'[c].err = NoErr) =>
             /\ ret'[c].val = local[c].token
             /\ ret'[c].val = ScanToken(KeyOf(c))
             /\ tokens'[KeyOf(c)].access_token = local[c].newToken.AccessToken
             /\ tokens'[KeyOf(c)].refresh_token = local[c].newToken.RefreshToken
             /\ tokens'[KeyOf(c)].expiry = local[c].newToken.Expiry
             /\ tokens'[KeyOf(c)].created_at = clock]_vars

\* A refresh that made a refresh round trip has returned token set 1 while
\* the row now holds token set 2.
C20_Witness ==
    \E c \in Calls :
       /\ pc[c] = "done"
       /\ op[c] = "Refresh"
       /\ ret[c].err = NoErr
       /\ local[c].refreshes = 1
       /\ ret[c].val.AccessToken = 1
       /\ ret[c].val.CreatedAt = 1
       /\ tokens[KeyOf(c)].access_token = 2
       /\ tokens[KeyOf(c)].created_at = 2

\* C21: SetStatus(id, status) with a valid status, on an id that has a row,
\* stores the status and returns the App of that id without error; on an id
\* without a row it returns the no-row error and changes no row.
C21_SetStatusResult ==
    [][\A c \in Calls :
          (/\ Moves(c, "SetStatus", "done")
           /\ args[c].status \in {StatusEnable, StatusDisable}) =>
             IF args[c].id \in DOMAIN apps
             THEN /\ apps'[args[c].id].status = args[c].status
                  /\ ret'[c].err = NoErr
                  /\ ret'[c].val.ID = args[c].id
             ELSE /\ ret'[c].err = ErrNoRows
                  /\ apps' = apps]_vars

\* C22: a refresh that has loaded the Token and then fails, at the resolution
\* of the configuration (no enabled App, unsupported service) or at the
\* provider's token source, returns an error and no token, leaves every row of
\* tokens, exchanges and apps as it was, and has gone to the provider at most once.
C22_FailedRefreshKeepsRows ==
    [][\A c \in Calls :
          (\/ Moves(c, "Refresh_conf", "done")
           \/ Moves(c, "Refresh_token", "done")) =>
             /\ ret'[c].err \in {ErrNoRows, ErrService, ErrProvider}
             /\ ret'[c].val = NoToken
             /\ tokens' = tokens
             /\ exchanges' = exchanges
             /\ apps' = apps
             /\ local'[c].refreshes <= 1
             /\ local'[c].confs = 1]_vars

\* A refresh of a stored Token has been rejected by the provider, after one
\* round trip, and the row is still there.
C22_Witness ==
    \E c \in Calls :
       /\ pc[c] = "done"
       /\ op[c] = "Refresh"
       /\ ret[c].err = ErrProvider
       /\ local[c].refreshes = 1
       /\ KeyOf(c) \in DOMAIN tokens

\* C23: a start delegation whose service has no enabled App, or is not in the
\* Provider Registry, returns from its configuration resolution with an error
\* and no URL, and the Exchange rows are the same before and after; a start
\* delegation that returns from its configuration resolution has failed so.
C23_FailedStartNoExchange ==
    [][\A c \in Calls :
          (/\ pc[c] = "AuthCodeURL"
           /\ pc'[c] # "AuthCodeURL") =>
             /\ (NoEnabledApp(args[c].service) \/ args[c].service \notin Registry)
                   <=> pc'[c] = "done"
             /\ pc'[c] = "done" =>
                   /\ ret'[c].err =
                         IF NoEnabledApp(args[c].service) THEN ErrNoRows ELSE ErrService
                   /\ ret'[c].val = NoURL
                   /\ exchanges' = exchanges]_vars

\* A start delegation for a service outside the registry, with an enabled
\* App, has failed while an Exchange of an earlier start is stored.
C23_Witness ==
    \E c \in Calls :
       /\ pc[c] = "done"
       /\ op[c] = "AuthCodeURL"
       /\ ret[c].err = ErrService
       /\ ~NoEnabledApp(args[c].service)
       /\ exchanges # EmptyTable
       /\ \A id \in DOMAIN exchanges : exchanges[id].service # args[c].service

\* A start delegation for a service whose Apps are all disabled has failed
\* while an Exchange of an earlier start for that service is stored.
C23_WitnessDisabled ==
    \E c \in Calls :
       /\ pc[c] = "done"
       /\ op[c] = "AuthCodeURL"
       /\ ret[c].err = ErrNoRows
       /\ \E id \in DOMAIN apps : apps[id].service = args[c].service
       /\ \E id \in DOMAIN exchanges : exchanges[id].service = args[c].service

\* C24: a PATCH /{appID}/status/{status} request that names a stored App and
\* a valid status ends with that status stored in the App's row and with the
\* same App rows as before.
C24_PatchSetsStatus ==
    [][\A c \in Calls :
          (/\ args[c].route = PatchStatusRoute
           /\ pc[c] \notin {"idle", "done"}
           /\ pc'[c] = "done"
           /\ args[c].id \in DOMAIN apps
           /\ args[c].status \in {StatusEnable, StatusDisable}) =>
             /\ DOMAIN apps' = DOMAIN apps
             /\ apps'[args[c].id].status = args[c].status]_vars

\* C25: every call of Stop eventually returns, in the goroutine of main and in
\* the goroutine of runHTTPServer.
C25_StopReturns ==
    \A g \in Goroutines :
       (gpc[g] = "Shutdown") ~> (gpc[g] \in {"return", "exited"})

====
